---- MODULE Spec2Model ----
(***************************************************************************)
(* MountNBD.py: attach a QCOW2 image to a free /dev/nbdN slot and mount    *)
(* its first partition.  The model follows the script statement by         *)
(* statement: every external operation (argument parsing, geteuid, file    *)
(* access, modprobe, lsmod, blockdev, qemu-nbd, mkdir, ismount, sleep,     *)
(* mount, the final prints) is one step; the host state the script reads   *)
(* and changes (module table, nbd slots, directories, mount table) is      *)
(* part of the state, and the results of the external commands are chosen  *)
(* nondeterministically where the host state does not determine them.      *)
(***************************************************************************)
EXTENDS Integers, Sequences, FiniteSets, TLC

(* ---- bounds ----------------------------------------------------------- *)

\* number of /dev/nbdN device nodes the loaded driver provides (nbds_max)
PoolSize == 4

(* ---- program constants ------------------------------------------------ *)

MOUNT_POINT == "/mnt/qcow"
LEGITIMATE_HEADERS == { <<81, 70, 73, 251>> }
NBD_LOCATION == "/dev/nbd"

(* ---- the environment the runs are checked in -------------------------- *)

ImagePath == "disk.qcow2"
TextPath == "notes.txt"
OtherDir == "/mnt/other"
Dirs == {MOUNT_POINT, OtherDir}
ForeignSource == "/dev/sda1"

\* command lines (sys.argv[1:])
ArgvSet == { <<>>,
             <<"--version">>,
             <<"-v", "--version">>,
             <<ImagePath>>,
             <<TextPath>>,
             <<"-v", ImagePath>>,
             <<ImagePath, OtherDir>>,
             <<"-v", ImagePath, OtherDir>>,
             <<ImagePath, OtherDir, "extra">> }

\* what is found at the image path: nothing, a directory, a file that cannot
\* be read, or a readable file with the given content
Headers == { <<81, 70, 73, 251>>, <<0, 0, 0, 0>>, <<81, 70, 73>>, <<>>,
             <<81, 70, 73, 251, 0>>, <<0, 81, 70, 73, 251>> }
ImageStates == { [kind |-> "missing", head |-> <<>>],
                 [kind |-> "dir", head |-> <<>>],
                 [kind |-> "unreadable", head |-> <<>>] }
               \cup { [kind |-> "file", head |-> h] : h \in Headers }

\* sizes blockdev --getsize64 reports: 0 for an unbound slot
SlotSizes == {0, 512}
BoundSize == CHOOSE s \in SlotSizes : s # 0
Slots == 0 .. (PoolSize - 1)

VARIABLES
  euid, argv, image,                \* inputs of the run
  driverLoaded, slotSize, slotImage, dirExists, mountTable,   \* host state
  os0,                              \* host state when the run started
  pc, cli, nbd_drive, target_drive, \* the script's position and locals
  calls, printed, outcome, errKind, failStage, exitCode,      \* what it did
  peer                              \* a second instance of the tool, if any

inputs == <<euid, argv, image, os0, peer>>
host == <<driverLoaded, slotSize, slotImage, dirExists, mountTable>>
locals == <<cli, nbd_drive, target_drive>>
result == <<outcome, errKind, failStage, exitCode>>
vars == <<euid, argv, image, os0, driverLoaded, slotSize, slotImage, dirExists,
          mountTable, pc, cli, nbd_drive, target_drive, calls, printed,
          outcome, errKind, failStage, exitCode, peer>>

(* ---- helpers ----------------------------------------------------------- *)

\* one external operation as issued: its name, its file/device argument, its
\* directory argument, its exit status and the number it printed
Call(op, arg, dir, rc, out) ==
  [op |-> op, arg |-> arg, dir |-> dir, rc |-> rc, out |-> out]

RECURSIVE CountOf(_, _)
CountOf(seq, tok) ==
  IF seq = <<>> THEN 0
  ELSE (IF Head(seq) = tok THEN 1 ELSE 0) + CountOf(Tail(seq), tok)

RECURSIVE Positionals(_)
Positionals(seq) ==
  IF seq = <<>> THEN <<>>
  ELSE IF Head(seq) \in {"-v", "--version"} THEN Positionals(Tail(seq))
       ELSE <<Head(seq)>> \o Positionals(Tail(seq))

\* ArgumentParser.parse_args: --version prints and exits 0 as soon as it is
\* seen; a missing image_file or a third positional is a usage error (exit
\* 2); otherwise image_file, mount_point (default MOUNT_POINT) and the -v count
ParseArgs(av) ==
  LET pos == Positionals(av) IN
  IF CountOf(av, "--version") > 0
    THEN [status |-> "version", image_file |-> "", mount_point |-> "", verbose |-> 0]
  ELSE IF Len(pos) = 0 \/ Len(pos) > 2
    THEN [status |-> "usage", image_file |-> "", mount_point |-> "", verbose |-> 0]
  ELSE [status |-> "ok",
        image_file |-> pos[1],
        mount_point |-> IF Len(pos) = 2 THEN pos[2] ELSE MOUNT_POINT,
        verbose |-> CountOf(av, "-v")]

NoArgs == [status |-> "unparsed", image_file |-> "", mount_point |-> "", verbose |-> 0]

ReadWholeFile(content, n) == content
\* binaryFile.read(n): the first n bytes, fewer when the file is shorter
ReadBytes(content, n) ==
  SubSeq(content, 1, IF Len(content) < n THEN Len(content) ELSE n)

\* binaryFile.read(4) in LEGITIMATE_HEADERS
is_QCOW(head) == head \in LEGITIMATE_HEADERS

\* '/dev/nbd' + str(nbd_drive)
NbdPath(n) == NBD_LOCATION \o ToString(n)

FirstPartitionWhole(dev) == dev
\* nbd_device_to_mount + "p1"
FirstPartition(dev) == dev \o "p1"

IsEmptyDriveInverted(size) == size # 0
\* int(drive_size) == 0
IsEmptyDrive(size) == size = 0

NextDriveSkip(n) == n + 2
\* nbd_drive += 1
NextDrive(n) == n + 1

FailExitZero(stage, kind) ==
  /\ pc' = "exit"
  /\ outcome' = "failed"
  /\ errKind' = kind
  /\ failStage' = stage
  /\ exitCode' = 0

\* exit("message"): message on stderr, status 1; an uncaught exception ends
\* the interpreter with a traceback and status 1 as well
Fail(stage, kind) ==
  /\ pc' = "exit"
  /\ outcome' = "failed"
  /\ errKind' = kind
  /\ failStage' = stage
  /\ exitCode' = 1

Issue(c) == calls' = Append(calls, c)

(* ---- initial states ---------------------------------------------------- *)

\* no second instance is running
PeerIdle == [pc |-> "idle", nbd_drive |-> 0, target_drive |-> ""]

\* the host before the run
HostInit ==
  /\ driverLoaded \in BOOLEAN
  /\ slotSize \in [Slots -> SlotSizes]
  /\ slotImage = [i \in Slots |-> IF slotSize[i] = 0 THEN "" ELSE "other.img"]
  /\ dirExists \in [Dirs -> BOOLEAN]
  /\ mountTable \in [Dirs -> {"", ForeignSource}]
  /\ \A d \in Dirs : mountTable[d] # "" => dirExists[d]
  /\ os0 = [driverLoaded |-> driverLoaded, slotSize |-> slotSize,
            slotImage |-> slotImage, dirExists |-> dirExists,
            mountTable |-> mountTable]

\* the script before its first statement
RunInit ==
  /\ pc = "parse_args"
  /\ cli = NoArgs
  /\ nbd_drive = 0
  /\ target_drive = ""
  /\ calls = <<>>
  /\ printed = <<>>
  /\ outcome = "running"
  /\ errKind = ""
  /\ failStage = ""
  /\ exitCode = -1

Init ==
  /\ euid \in {0, 1000}
  /\ argv \in ArgvSet
  /\ image \in ImageStates
  /\ HostInit
  /\ RunInit
  /\ peer = PeerIdle

(* ---- startup() --------------------------------------------------------- *)

\* parser.parse_args(): runs before the root check
ParseArgsStep ==
  /\ pc = "parse_args"
  /\ LET a == ParseArgs(argv) IN
       /\ cli' = a
       /\ CASE a.status = "version" ->
                 /\ pc' = "exit"
                 /\ outcome' = "version"
                 /\ exitCode' = 0
                 /\ printed' = Append(printed, <<"version">>)
                 /\ UNCHANGED <<errKind, failStage>>
            [] a.status = "usage" ->
                 /\ pc' = "exit"
                 /\ outcome' = "failed"
                 /\ errKind' = "UsageError"
                 /\ failStage' = "Idle"
                 /\ exitCode' = 2
                 /\ UNCHANGED printed
            [] OTHER ->
                 /\ pc' = "geteuid"
                 /\ UNCHANGED <<result, printed>>
  /\ UNCHANGED <<inputs, host, nbd_drive, target_drive, calls>>

\* if geteuid() != 0: exit(...)
CheckRoot ==
  /\ pc = "geteuid"
  /\ IF euid # 0
       THEN Fail("Idle", "PrivilegeError")
       ELSE pc' = "check_image" /\ UNCHANGED result
  /\ UNCHANGED <<inputs, host, locals, calls, printed>>

(* ---- check_image_file(), is_QCOW() ------------------------------------- *)

CheckImageFile ==
  /\ pc = "check_image"
  /\ LET f == cli.image_file
         ex == Call("exists", f, "", 0, 0)
         op == Call("open", f, "", 0, 0)
     IN CASE image.kind = "missing" ->
               Issue(ex) /\ Fail("Validating", "NotFound")
          [] image.kind = "dir" ->
               /\ calls' = calls \o <<ex, [op EXCEPT !.rc = 1]>>
               /\ Fail("Validating", "IsDirectory")
          [] image.kind = "unreadable" ->
               /\ calls' = calls \o <<ex, [op EXCEPT !.rc = 1]>>
               /\ Fail("Validating", "Unreadable")
          [] image.kind = "file" ->
               /\ calls' = calls \o <<ex, op>>
               /\ IF is_QCOW(ReadBytes(image.head, 4))
                    THEN pc' = "modprobe" /\ UNCHANGED result
                    ELSE Fail("Validating", "UnrecognizedFormat")
  /\ UNCHANGED <<inputs, host, locals, printed>>

(* ---- load_nbd_driver() ------------------------------------------------- *)

\* check_output(['modprobe', 'nbd', 'max_part=16']) returns status 0; the
\* module is then loaded, unless the loader's status was misleading
ModprobeOk ==
  /\ pc = "modprobe"
  /\ Issue(Call("modprobe", "nbd", "", 0, 0))
  /\ \E loaded \in BOOLEAN : driverLoaded' = (driverLoaded \/ loaded)
  /\ pc' = "lsmod"
  /\ UNCHANGED <<inputs, slotSize, slotImage, dirExists, mountTable, locals,
                 printed, result>>

ModprobeFailContinues ==
  /\ pc = "modprobe"
  /\ Issue(Call("modprobe", "nbd", "", 1, 0))
  /\ pc' = "lsmod"
  /\ outcome' = "failed"
  /\ errKind' = "DriverLoadFailed"
  /\ failStage' = "DriverLoading"
  /\ exitCode' = 1
  /\ UNCHANGED <<inputs, host, locals, printed>>

\* except CalledProcessError: exit(...)
ModprobeFail ==
  /\ pc = "modprobe"
  /\ Issue(Call("modprobe", "nbd", "", 1, 0))
  /\ Fail("DriverLoading", "DriverLoadFailed")
  /\ UNCHANGED <<inputs, host, locals, printed>>

\* check_output("lsmod | grep nbd", shell=True): grep's status is the
\* pipeline's, 0 exactly when the module table lists the driver
LsmodOk ==
  /\ pc = "lsmod"
  /\ driverLoaded
  /\ Issue(Call("lsmod", "nbd", "", 0, 0))
  /\ pc' = "scan"
  /\ UNCHANGED <<inputs, host, locals, printed, result>>

LsmodFailIgnored ==
  /\ pc = "lsmod"
  /\ ~driverLoaded
  /\ Issue(Call("lsmod", "nbd", "", 1, 0))
  /\ pc' = "scan"
  /\ UNCHANGED <<inputs, host, locals, printed, result>>

\* except CalledProcessError: exit(...)
LsmodFail ==
  /\ pc = "lsmod"
  /\ ~driverLoaded
  /\ Issue(Call("lsmod", "nbd", "", 1, 0))
  /\ Fail("DriverLoading", "DriverNotConfirmed")
  /\ UNCHANGED <<inputs, host, locals, printed>>

(* ---- connect_nbd() ----------------------------------------------------- *)

QuerySlotReserve ==
  /\ pc = "scan"
  /\ nbd_drive \in Slots
  /\ LET size == slotSize[nbd_drive] IN
       /\ Issue(Call("blockdev", NbdPath(nbd_drive), "", 0, size))
       /\ IF IsEmptyDrive(size)
            THEN /\ target_drive' = NbdPath(nbd_drive)
                 /\ slotSize' = [slotSize EXCEPT ![nbd_drive] = BoundSize]
                 /\ pc' = "connect"
                 /\ UNCHANGED nbd_drive
            ELSE /\ nbd_drive' = NextDrive(nbd_drive)
                 /\ UNCHANGED <<target_drive, pc, slotSize>>
  /\ UNCHANGED <<inputs, driverLoaded, slotImage, dirExists, mountTable, cli,
                 printed, result>>

\* one iteration of the while loop on a device node that exists
QuerySlot ==
  /\ pc = "scan"
  /\ nbd_drive \in Slots
  /\ LET size == slotSize[nbd_drive] IN
       /\ Issue(Call("blockdev", NbdPath(nbd_drive), "", 0, size))
       /\ IF IsEmptyDrive(size)
            THEN /\ target_drive' = NbdPath(nbd_drive)
                 /\ pc' = "connect"
                 /\ UNCHANGED nbd_drive
            ELSE /\ nbd_drive' = NextDrive(nbd_drive)
                 /\ UNCHANGED <<target_drive, pc>>
  /\ UNCHANGED <<inputs, host, cli, printed, result>>

\* the loop has no upper bound: past the last device node blockdev exits
\* nonzero and check_output raises CalledProcessError, which nothing catches
QueryPastPool ==
  /\ pc = "scan"
  /\ nbd_drive \notin Slots
  /\ Issue(Call("blockdev", NbdPath(nbd_drive), "", 1, 0))
  /\ Fail("Allocating", "Traceback")
  /\ UNCHANGED <<inputs, host, locals, printed>>

\* check_output(["qemu-nbd", "--connect=...", image]) returns status 0
ConnectOk ==
  /\ pc = "connect"
  /\ Issue(Call("qemu-nbd", target_drive, "", 0, 0))
  /\ slotImage' = [slotImage EXCEPT ![nbd_drive] = cli.image_file]
  /\ slotSize' = [slotSize EXCEPT ![nbd_drive] = BoundSize]
  /\ pc' = "mkdir"
  /\ UNCHANGED <<inputs, driverLoaded, dirExists, mountTable, locals, printed,
                 result>>

ConnectFailRetryOnce ==
  /\ pc = "connect"
  /\ Issue(Call("qemu-nbd", target_drive, "", 1, 0))
  /\ IF \E k \in DOMAIN calls : calls[k].op = "qemu-nbd"
       THEN Fail("Binding", "ConnectFailed")
       ELSE UNCHANGED <<pc, result>>
  /\ UNCHANGED <<inputs, host, locals, printed>>

\* except CalledProcessError: exit(...)
ConnectFail ==
  /\ pc = "connect"
  /\ Issue(Call("qemu-nbd", target_drive, "", 1, 0))
  /\ Fail("Binding", "ConnectFailed")
  /\ UNCHANGED <<inputs, host, locals, printed>>

(* ---- mount_devices() --------------------------------------------------- *)

EnsureMountDirDefault ==
  /\ pc = "mkdir"
  /\ LET d == MOUNT_POINT
         ex == Call("exists", "", d, 0, 0)
     IN IF dirExists[d]
          THEN /\ Issue(ex)
               /\ pc' = "ismount"
               /\ UNCHANGED <<dirExists, result>>
          ELSE \/ /\ calls' = calls \o <<ex, Call("mkdir", "", d, 0, 0)>>
                  /\ dirExists' = [dirExists EXCEPT ![d] = TRUE]
                  /\ pc' = "ismount"
                  /\ UNCHANGED result
               \/ /\ calls' = calls \o <<ex, Call("mkdir", "", d, 1, 0)>>
                  /\ Fail("Mounting", "Traceback")
                  /\ UNCHANGED dirExists
  /\ UNCHANGED <<inputs, driverLoaded, slotSize, slotImage, mountTable, locals,
                 printed>>

\* if not path.exists(MOUNT_POINT): mkdir(MOUNT_POINT)
EnsureMountDir ==
  /\ pc = "mkdir"
  /\ LET d == cli.mount_point
         ex == Call("exists", "", d, 0, 0)
     IN IF dirExists[d]
          THEN /\ Issue(ex)
               /\ pc' = "ismount"
               /\ UNCHANGED <<dirExists, result>>
          ELSE \/ /\ calls' = calls \o <<ex, Call("mkdir", "", d, 0, 0)>>
                  /\ dirExists' = [dirExists EXCEPT ![d] = TRUE]
                  /\ pc' = "ismount"
                  /\ UNCHANGED result
               \* mkdir raises OSError, which nothing catches
               \/ /\ calls' = calls \o <<ex, Call("mkdir", "", d, 1, 0)>>
                  /\ Fail("Mounting", "Traceback")
                  /\ UNCHANGED dirExists
  /\ UNCHANGED <<inputs, driverLoaded, slotSize, slotImage, mountTable, locals,
                 printed>>

IsMountedNever(table, d) == FALSE

\* path.ismount(MOUNT_POINT)
IsMounted(table, d) == table[d] # ""

CheckNotMountedCleanup ==
  /\ pc = "ismount"
  /\ LET d == cli.mount_point
         q == Call("ismount", "", d, 0, 0)
     IN IF IsMounted(mountTable, d)
          THEN /\ calls' = calls \o <<q, Call("mount-list", "", d, 0, 0),
                                        Call("qemu-nbd -d", target_drive, "", 0, 0)>>
               /\ slotImage' = [slotImage EXCEPT ![nbd_drive] = ""]
               /\ slotSize' = [slotSize EXCEPT ![nbd_drive] = 0]
               /\ Fail("Mounting", "AlreadyMounted")
          ELSE /\ Issue(q)
               /\ pc' = "sleep"
               /\ UNCHANGED <<result, slotImage, slotSize>>
  /\ UNCHANGED <<inputs, driverLoaded, dirExists, mountTable, locals, printed>>

\* if path.ismount(MOUNT_POINT): list what is mounted there and exit
CheckNotMounted ==
  /\ pc = "ismount"
  /\ LET d == cli.mount_point
         q == Call("ismount", "", d, 0, 0)
     IN IF IsMounted(mountTable, d)
          THEN /\ calls' = calls \o <<q, Call("mount-list", "", d, 0, 0)>>
               /\ Fail("Mounting", "AlreadyMounted")
          ELSE /\ Issue(q)
               /\ pc' = "sleep"
               /\ UNCHANGED result
  /\ UNCHANGED <<inputs, host, locals, printed>>

SleepSkipped ==
  /\ pc = "sleep"
  /\ pc' = "mount"
  /\ UNCHANGED <<inputs, host, locals, calls, printed, result>>

\* sleep(2)
Sleep ==
  /\ pc = "sleep"
  /\ Issue(Call("sleep", "", "", 0, 0))
  /\ pc' = "mount"
  /\ UNCHANGED <<inputs, host, locals, printed, result>>

\* check_output(["mount", target_nbd_device, MOUNT_POINT]) returns status 0
MountOk ==
  /\ pc = "mount"
  /\ LET d == cli.mount_point
         src == FirstPartition(target_drive)
     IN /\ Issue(Call("mount", src, d, 0, 0))
        /\ mountTable' = [mountTable EXCEPT ![d] = src]
  /\ pc' = "report"
  /\ UNCHANGED <<inputs, driverLoaded, slotSize, slotImage, dirExists, locals,
                 printed, result>>

MountFailCleanup ==
  /\ pc = "mount"
  /\ calls' = calls \o << Call("mount", FirstPartition(target_drive), cli.mount_point, 1, 0),
                          Call("qemu-nbd -d", target_drive, "", 0, 0) >>
  /\ slotImage' = [slotImage EXCEPT ![nbd_drive] = ""]
  /\ slotSize' = [slotSize EXCEPT ![nbd_drive] = 0]
  /\ Fail("Mounting", "MountFailed")
  /\ UNCHANGED <<inputs, driverLoaded, dirExists, mountTable, locals, printed>>

\* except CalledProcessError: exit(...)
MountFail ==
  /\ pc = "mount"
  /\ Issue(Call("mount", FirstPartition(target_drive), cli.mount_point, 1, 0))
  /\ Fail("Mounting", "MountFailed")
  /\ UNCHANGED <<inputs, host, locals, printed>>

(* ---- the end of __main__ ----------------------------------------------- *)

DoneReportPartition(a, dev) ==
  <<  <<"mounted", a.image_file, a.mount_point>>  >>
  \o (IF a.verbose > 0
        THEN << <<"umount", a.mount_point>>, <<"qemu-nbd -d", FirstPartition(dev)>>,
                <<"rmmod nbd">> >>
        ELSE <<>>)

\* the lines printed once mount_devices has returned
DoneReport(a, dev) ==
  <<  <<"mounted", a.image_file, a.mount_point>>  >>
  \o (IF a.verbose > 0
        THEN << <<"umount", a.mount_point>>, <<"qemu-nbd -d", dev>>, <<"rmmod nbd">> >>
        ELSE <<>>)

Report ==
  /\ pc = "report"
  /\ printed' = printed \o DoneReport(cli, target_drive)
  /\ pc' = "exit"
  /\ outcome' = "done"
  /\ exitCode' = 0
  /\ UNCHANGED <<inputs, host, locals, calls, errKind, failStage>>

Next ==
  \/ ParseArgsStep
  \/ CheckRoot
  \/ CheckImageFile
  \/ ModprobeOk
  \/ ModprobeFail
  \/ LsmodOk
  \/ LsmodFail
  \/ QuerySlot
  \/ QueryPastPool
  \/ ConnectOk
  \/ ConnectFail
  \/ EnsureMountDir
  \/ CheckNotMounted
  \/ Sleep
  \/ MountOk
  \/ MountFail
  \/ Report

Spec == Init /\ [][Next]_vars

(* ---- every run takes its next step ------------------------------------- *)

\* the script is sequential and every external call returns
FairSpec == Spec /\ WF_vars(Next)

(* ---- two instances on one host ----------------------------------------- *)

\* the statements of the second instance that touch the slot pool are those
\* of connect_nbd; it has its own nbd_drive and target_drive

\* the second instance is about to enter connect_nbd
PeerStart == [pc |-> "scan", nbd_drive |-> 0, target_drive |-> ""]

PeerQuerySlot ==
  /\ peer.pc = "scan"
  /\ peer.nbd_drive \in Slots
  /\ peer' = IF IsEmptyDrive(slotSize[peer.nbd_drive])
               THEN [peer EXCEPT !.target_drive = NbdPath(peer.nbd_drive),
                                 !.pc = "connect"]
               ELSE [peer EXCEPT !.nbd_drive = NextDrive(peer.nbd_drive)]
  /\ UNCHANGED <<euid, argv, image, os0, host, pc, locals, calls, printed, result>>

PeerQueryPastPool ==
  /\ peer.pc = "scan"
  /\ peer.nbd_drive \notin Slots
  /\ peer' = [peer EXCEPT !.pc = "scan_failed"]
  /\ UNCHANGED <<euid, argv, image, os0, host, pc, locals, calls, printed, result>>

PeerConnectOk ==
  /\ peer.pc = "connect"
  /\ slotImage' = [slotImage EXCEPT ![peer.nbd_drive] = "peer.img"]
  /\ slotSize' = [slotSize EXCEPT ![peer.nbd_drive] = BoundSize]
  /\ peer' = [peer EXCEPT !.pc = "bound"]
  /\ UNCHANGED <<euid, argv, image, os0, driverLoaded, dirExists, mountTable,
                 pc, locals, calls, printed, result>>

PeerConnectFail ==
  /\ peer.pc = "connect"
  /\ peer' = [peer EXCEPT !.pc = "connect_failed"]
  /\ UNCHANGED <<euid, argv, image, os0, host, pc, locals, calls, printed, result>>

InitRace ==
  /\ euid = 0
  /\ argv \in { <<ImagePath>>, <<"-v", ImagePath, OtherDir>> }
  /\ image \in { i \in ImageStates : i.kind = "file" }
  /\ HostInit
  /\ RunInit
  /\ peer = PeerStart

NextRace ==
  \/ Next
  \/ PeerQuerySlot
  \/ PeerQueryPastPool
  \/ PeerConnectOk
  \/ PeerConnectFail

SpecRace == InitRace /\ [][NextRace]_vars

TypeOK ==
  /\ pc \in {"parse_args", "geteuid", "check_image", "modprobe", "lsmod", "scan",
             "connect", "mkdir", "ismount", "sleep", "mount", "report", "exit"}
  /\ outcome \in {"running", "done", "failed", "version"}
  /\ nbd_drive \in 0 .. PoolSize
  /\ exitCode \in {-1, 0, 1, 2}

(* ---- vocabulary of the properties -------------------------------------- *)

CallIdx == DOMAIN calls
Issued(ops) == \E k \in CallIdx : calls[k].op \in ops
Terminated == outcome # "running"

\* the stage an external operation belongs to
StageOfCall(c) ==
  CASE c.op = "open" -> "Validating"
    [] c.op = "exists" /\ c.dir = "" -> "Validating"
    [] c.op \in {"modprobe", "lsmod"} -> "DriverLoading"
    [] c.op = "blockdev" -> "Allocating"
    [] c.op = "qemu-nbd" -> "Binding"
    [] OTHER -> "Mounting"

StageRank(st) ==
  CASE st = "Idle" -> 0
    [] st = "Validating" -> 1
    [] st = "DriverLoading" -> 2
    [] st = "Allocating" -> 3
    [] st = "Binding" -> 4
    [] st = "Mounting" -> 5
    [] OTHER -> 6

CallRank(k) == StageRank(StageOfCall(calls[k]))

TaxonomyKinds ==
  {"PrivilegeError", "NotFound", "IsDirectory", "Unreadable", "UnrecognizedFormat",
   "DriverLoadFailed", "DriverNotConfirmed", "PoolExhausted", "ConnectFailed",
   "AlreadyMounted", "DirectoryCreateFailed", "MountFailed"}

UndoOps == {"umount", "qemu-nbd -d", "rmmod"}

BlockdevCalls == SelectSeq(calls, LAMBDA c : c.op = "blockdev")
PoolPaths == { NBD_LOCATION \o ToString(i) : i \in Slots }
AllSlotsBusy == \A i \in Slots : os0.slotSize[i] # 0

(* ---- C1 ----------------------------------------------------------------- *)

\* C1: a run without root privileges ends in PrivilegeError, whatever the
\* command line, and nothing else (no usage error, no version output, no
\* external operation) happens first.
C1_PrivilegeFirst ==
  (euid # 0 /\ Terminated) =>
     /\ outcome = "failed"
     /\ errKind = "PrivilegeError"
     /\ calls = <<>>
     /\ printed = <<>>

(* ---- C2 ----------------------------------------------------------------- *)

\* C2: external operations are issued in stage order (Validating,
\* DriverLoading, Allocating, Binding, Mounting), a stage is only entered
\* after every earlier stage has run, and once a stage has failed no
\* operation of a later stage is in the record of the run.
C2_FailStop ==
  /\ \A i, j \in CallIdx : i < j => CallRank(i) <= CallRank(j)
  /\ \A k \in CallIdx : \A r \in 1 .. (CallRank(k) - 1) :
        \E m \in 1 .. k : CallRank(m) = r
  /\ outcome = "failed" =>
        \A k \in CallIdx : CallRank(k) <= StageRank(failStage)

C2_Witness ==
  /\ outcome = "failed"
  /\ failStage = "Binding"
  /\ Issued({"blockdev"})
  /\ ~Issued({"mkdir", "ismount", "mount"})

(* ---- C3 ----------------------------------------------------------------- *)

\* C3: when every slot of the pool reports a nonzero size, the run fails at
\* the Allocating stage with PoolExhausted, having queried only slots of
\* the pool.
C3_PoolExhausted ==
  (AllSlotsBusy /\ Terminated /\ Issued({"blockdev"})) =>
     /\ outcome = "failed"
     /\ failStage = "Allocating"
     /\ errKind = "PoolExhausted"
     /\ \A k \in CallIdx : calls[k].op = "blockdev" => calls[k].arg \in PoolPaths

(* ---- C4 ----------------------------------------------------------------- *)

\* C4: slots are queried in ascending order from 0, and the slot handed to
\* qemu-nbd is the lowest-indexed slot reporting size zero; whenever some
\* slot reports zero the scan ends with that slot.
C4_LowestFree ==
  /\ \A k \in DOMAIN BlockdevCalls :
        BlockdevCalls[k].arg = NBD_LOCATION \o ToString(k - 1)
  /\ \A k \in CallIdx : calls[k].op = "qemu-nbd" =>
        \E i \in Slots :
           /\ calls[k].arg = NBD_LOCATION \o ToString(i)
           /\ os0.slotSize[i] = 0
           /\ \A j \in 0 .. (i - 1) : os0.slotSize[j] # 0
  /\ (~AllSlotsBusy /\ Issued({"blockdev"}) /\ pc # "scan") =>
        /\ failStage # "Allocating"
        /\ \E i \in Slots :
              /\ target_drive = NBD_LOCATION \o ToString(i)
              /\ os0.slotSize[i] = 0
              /\ \A j \in 0 .. (i - 1) : os0.slotSize[j] # 0

C4_Witness ==
  /\ \A j \in 0 .. 2 : os0.slotSize[j] # 0
  /\ os0.slotSize[3] = 0
  /\ \E k \in CallIdx : calls[k].op = "qemu-nbd" /\ calls[k].arg = "/dev/nbd3"

(* ---- C5 ----------------------------------------------------------------- *)

\* C5: when the mount directory is a mount point at the time of the check,
\* the run fails with AlreadyMounted, no mount call is issued and the mount
\* table is as it was.
C5_AlreadyMounted ==
  (Issued({"ismount"}) /\ os0.mountTable[cli.mount_point] # "") =>
     /\ outcome = "failed"
     /\ failStage = "Mounting"
     /\ errKind = "AlreadyMounted"
     /\ ~Issued({"mount"})
     /\ mountTable = os0.mountTable

C5_Witness ==
  /\ errKind = "AlreadyMounted"
  /\ os0.mountTable[cli.mount_point] = ForeignSource
  /\ Issued({"qemu-nbd"})

(* ---- C6 ----------------------------------------------------------------- *)

NoUndoStep ==
  /\ \A i \in Slots : slotImage[i] # "" => slotImage'[i] = slotImage[i]
  /\ \A i \in Slots : slotSize[i] # 0 => slotSize'[i] # 0
  /\ \A d \in Dirs : mountTable[d] # "" => mountTable'[d] # ""
  /\ driverLoaded => driverLoaded'
  /\ \A k \in DOMAIN calls' : calls'[k].op \notin UndoOps

C7_NoUndo == [][NoUndoStep]_vars

C7_Witness ==
  /\ outcome = "failed"
  /\ errKind = "MountFailed"
  /\ slotImage[nbd_drive] = cli.image_file
  /\ os0.slotImage[nbd_drive] = ""
  /\ driverLoaded

(* ---- C8 ----------------------------------------------------------------- *)

\* C8: every failure of an external operation ends the run with one of the
\* error kinds of the taxonomy and the tool's own message, and a failed
\* creation of the mount directory is reported as DirectoryCreateFailed.
C8_AllFailuresReported ==
  (outcome = "failed" /\ failStage # "Idle") =>
     /\ errKind \in TaxonomyKinds
     /\ (calls[Len(calls)].op = "mkdir" /\ calls[Len(calls)].rc # 0) =>
           errKind = "DirectoryCreateFailed"

(* ---- C9 ----------------------------------------------------------------- *)

\* the conditions of end-to-end scenario A
ScenarioA ==
  /\ euid = 0
  /\ argv \in { <<ImagePath>>, <<"-v", ImagePath>> }
  /\ image = [kind |-> "file", head |-> <<81, 70, 73, 251>>]
  /\ os0.mountTable["/mnt/qcow"] = ""
  /\ os0.slotSize[0] = 0

C10_DriverConfirmed ==
  \A k \in CallIdx :
     /\ (calls[k].op = "modprobe" /\ calls[k].rc # 0) =>
           /\ outcome = "failed"
           /\ errKind = "DriverLoadFailed"
           /\ k = Len(calls)
     /\ (calls[k].op = "lsmod" /\ calls[k].rc # 0) =>
           /\ outcome = "failed"
           /\ errKind = "DriverNotConfirmed"
           /\ k = Len(calls)
           /\ calls[k - 1].op = "modprobe" /\ calls[k - 1].rc = 0
     /\ (calls[k].op = "lsmod" /\ calls[k].rc = 0) => driverLoaded
     /\ calls[k].op \in {"blockdev", "qemu-nbd"} =>
           \E m \in 1 .. k : calls[m].op = "lsmod" /\ calls[m].rc = 0

C10_Witness ==
  /\ errKind = "DriverNotConfirmed"
  /\ \E k \in CallIdx : calls[k].op = "modprobe" /\ calls[k].rc = 0
  /\ ~Issued({"blockdev", "qemu-nbd"})
(* ---- C11 ---------------------------------------------------------------- *)

ValidationDone ==
  \E k \in CallIdx : calls[k].op = "exists" /\ calls[k].arg = cli.image_file
                      /\ calls[k].dir = ""

HasQcowSignature(content) ==
  /\ Len(content) >= 4
  /\ content[1] = 81 /\ content[2] = 70 /\ content[3] = 73 /\ content[4] = 251

HostUntouched ==
  /\ driverLoaded = os0.driverLoaded
  /\ slotSize = os0.slotSize
  /\ slotImage = os0.slotImage
  /\ dirExists = os0.dirExists
  /\ mountTable = os0.mountTable

\* C11: validation passes exactly for an existing, readable regular file
\* whose first 4 bytes are 51 46 49 FB; a missing path fails with NotFound,
\* a directory with IsDirectory, an unreadable file with Unreadable, any
\* other content (shorter than 4 bytes included) with UnrecognizedFormat,
\* whatever the file is called, and validation changes no host state.
C11_Validate ==
  ValidationDone =>
     /\ cli.image_file \in {ImagePath, TextPath}
     /\ image.kind = "missing" => failStage = "Validating" /\ errKind = "NotFound"
     /\ image.kind = "dir" => failStage = "Validating" /\ errKind = "IsDirectory"
     /\ image.kind = "unreadable" => failStage = "Validating" /\ errKind = "Unreadable"
     /\ (image.kind = "file" /\ ~HasQcowSignature(image.head)) =>
           failStage = "Validating" /\ errKind = "UnrecognizedFormat"
     /\ (image.kind = "file" /\ HasQcowSignature(image.head)) =>
           failStage # "Validating"
     /\ (failStage = "Validating" \/ pc = "modprobe") => HostUntouched
     /\ failStage = "Validating" => outcome = "failed" /\ exitCode = 1

C11_Witness ==
  /\ cli.image_file = TextPath
  /\ image = [kind |-> "file", head |-> <<81, 70, 73, 251, 0>>]
  /\ pc = "modprobe"
(* ---- C12 ---------------------------------------------------------------- *)

BoundBefore(k) ==
  \E m \in 1 .. (k - 1) : calls[m].op = "qemu-nbd" /\ calls[m].rc = 0

CreatedBefore(k, d) ==
  \E m \in 1 .. (k - 1) : calls[m].op = "mkdir" /\ calls[m].rc = 0 /\ calls[m].dir = d

MountingReached == \E k \in CallIdx : calls[k].op = "exists" /\ calls[k].dir # ""

\* C12: in a run that reaches the Mounting stage with the mount directory
\* absent, mkdir of that directory is issued, and the mount-point check and
\* the mount call come only after it succeeded and name that same directory;
\* a directory that exists is not created again.
C12_DirCreated ==
  cli.status = "ok" =>
     /\ (~os0.dirExists[cli.mount_point] /\ MountingReached) =>
           /\ \E k \in CallIdx : calls[k].op = "mkdir" /\ calls[k].dir = cli.mount_point
           /\ \A k \in CallIdx : calls[k].op \in {"ismount", "mount"} =>
                 /\ calls[k].dir = cli.mount_point
                 /\ CreatedBefore(k, cli.mount_point)
                 /\ dirExists[cli.mount_point]
     /\ os0.dirExists[cli.mount_point] => ~Issued({"mkdir"})
     /\ \A d \in Dirs : d # cli.mount_point => dirExists[d] = os0.dirExists[d]
     /\ \A k \in CallIdx : (calls[k].op = "mount" /\ calls[k].rc = 0) =>
           mountTable[cli.mount_point] = calls[k].arg

C12_Witness ==
  /\ cli.status = "ok"
  /\ cli.mount_point = OtherDir
  /\ ~os0.dirExists[OtherDir]
  /\ outcome = "done"
  /\ mountTable[OtherDir] # ""

(* ---- C13 ---------------------------------------------------------------- *)

\* C13: the source of every mount call is the first partition ("p1") of
\* the slot this run bound to the image, and a disconnect command printed
\* for the user names that same slot.
C13_FirstPartition ==
  /\ \A k \in CallIdx : calls[k].op = "mount" =>
        \E i \in Slots :
           /\ calls[k].arg = (NBD_LOCATION \o ToString(i)) \o "p1"
           /\ target_drive = NBD_LOCATION \o ToString(i)
           /\ os0.slotImage[i] = ""
           /\ slotImage[i] = cli.image_file
           /\ \E m \in 1 .. (k - 1) :
                 /\ calls[m].op = "qemu-nbd"
                 /\ calls[m].rc = 0
                 /\ calls[m].arg = NBD_LOCATION \o ToString(i)
  /\ \A k \in DOMAIN printed : printed[k][1] = "qemu-nbd -d" =>
        \E m \in CallIdx :
           /\ calls[m].op = "qemu-nbd"
           /\ calls[m].rc = 0
           /\ calls[m].arg = printed[k][2]

C13_Witness ==
  /\ outcome = "done"
  /\ cli.verbose > 0
  /\ target_drive = "/dev/nbd1"
  /\ mountTable[cli.mount_point] = "/dev/nbd1p1"

(* ---- C16 ---------------------------------------------------------------- *)

\* C16: every mount call is immediately preceded by the settle delay, which
\* itself comes after a successful bind; the delay is followed by nothing
\* but the mount, is taken once, and is not taken in a run that fails
\* before the mount.
C16_SettleDelay ==
  /\ \A k \in CallIdx : calls[k].op = "mount" =>
        /\ k > 1
        /\ calls[k - 1].op = "sleep"
        /\ BoundBefore(k - 1)
  /\ \A k \in CallIdx : calls[k].op = "sleep" =>
        /\ BoundBefore(k)
        /\ k < Len(calls) => calls[k + 1].op = "mount"
        /\ k = Len(calls) => pc = "mount"
        /\ \A m \in CallIdx : calls[m].op = "sleep" => m = k
  /\ (outcome = "failed" /\ errKind # "MountFailed") => ~Issued({"sleep"})

C16_Witness ==
  /\ outcome = "failed"
  /\ errKind = "MountFailed"
  /\ Issued({"sleep"})

(* ---- C17 ---------------------------------------------------------------- *)

IsMountDirOp(c) ==
  \/ c.op \in {"mkdir", "ismount", "mount-list"}
  \/ c.op = "exists" /\ c.dir # ""

MkdirFailed ==
  /\ calls # <<>>
  /\ calls[Len(calls)].op = "mkdir"
  /\ calls[Len(calls)].rc # 0

\* C17: the mount directory is looked at, created and checked only after a
\* successful bind, so a run that fails with AlreadyMounted or on the
\* creation of the directory has the driver loaded and leaves a slot that
\* was free at the start bound to the image.
C17_DirAfterBind ==
  /\ \A k \in CallIdx : IsMountDirOp(calls[k]) => BoundBefore(k)
  /\ (outcome = "failed" /\ (errKind = "AlreadyMounted" \/ MkdirFailed)) =>
        /\ driverLoaded
        /\ Issued({"lsmod"})
        /\ \E i \in Slots :
              /\ target_drive = NBD_LOCATION \o ToString(i)
              /\ os0.slotSize[i] = 0
              /\ os0.slotImage[i] = ""
              /\ slotImage[i] = cli.image_file
              /\ slotSize[i] # 0

C17_Witness ==
  /\ outcome = "failed"
  /\ MkdirFailed
  /\ slotImage[nbd_drive] = cli.image_file

(* ---- C18 ---------------------------------------------------------------- *)

\* C18: the slot passed to qemu-nbd is the one whose size query, issued
\* just before, returned 0; a slot whose query returned a nonzero size (or
\* failed) is never passed to qemu-nbd, nor its partition to mount.
C18_BindsOnlyFree ==
  /\ \A k \in CallIdx : calls[k].op = "qemu-nbd" =>
        /\ k > 1
        /\ calls[k - 1].op = "blockdev"
        /\ calls[k - 1].arg = calls[k].arg
        /\ calls[k - 1].rc = 0
        /\ calls[k - 1].out = 0
  /\ \A j \in CallIdx : (calls[j].op = "blockdev" /\ (calls[j].out # 0 \/ calls[j].rc # 0)) =>
        \A k \in CallIdx :
           /\ calls[k].op = "qemu-nbd" => calls[k].arg # calls[j].arg
           /\ calls[k].op = "mount" => calls[k].arg # calls[j].arg \o "p1"

C18_Witness ==
  /\ \E j \in CallIdx : calls[j].op = "blockdev" /\ calls[j].out # 0
  /\ \E k \in CallIdx : calls[k].op = "qemu-nbd" /\ calls[k].rc = 0
  /\ Issued({"mount"})
(* ---- C14 ---------------------------------------------------------------- *)

NoBindIssuedYet ==
  /\ ~Issued({"qemu-nbd"})
  /\ peer.pc \in {"scan", "connect", "scan_failed"}

\* C14: with two instances interleaved, the slot scan changes nothing on
\* the host (as long as neither instance has issued a bind, slots are as
\* they were at the start), and an instance that has selected a slot can
\* always go on to issue its bind, whatever the other instance has selected
\* or bound.
C14_NoLock ==
  /\ NoBindIssuedYet => (slotSize = os0.slotSize /\ slotImage = os0.slotImage)
  /\ pc = "connect" => (ENABLED ConnectOk /\ ENABLED ConnectFail)
  /\ peer.pc = "connect" => (ENABLED PeerConnectOk /\ ENABLED PeerConnectFail)
  /\ (pc = "connect" /\ peer.pc \in {"connect", "bound", "connect_failed"}) =>
        \E i \in Slots : target_drive = NBD_LOCATION \o ToString(i)
                         /\ os0.slotSize[i] = 0

\* both instances have selected the same slot, each having seen size zero,
\* and neither has bound it yet
C14_Race ==
  /\ pc = "connect"
  /\ peer.pc = "connect"
  /\ target_drive = peer.target_drive
  /\ \E k \in CallIdx : calls[k].op = "blockdev" /\ calls[k].arg = target_drive
                        /\ calls[k].out = 0
  /\ slotSize[nbd_drive] = 0
  /\ slotImage[nbd_drive] = ""

(* ---- C15 ---------------------------------------------------------------- *)

CountCalls(op) == Len(SelectSeq(calls, LAMBDA c : c.op = op))

NoRetry ==
  /\ CountCalls("modprobe") <= 1
  /\ CountCalls("lsmod") <= 1
  /\ CountCalls("qemu-nbd") <= 1
  /\ CountCalls("mkdir") <= 1
  /\ CountCalls("mount") <= 1
  /\ CountCalls("blockdev") <= PoolSize + 1
  /\ \A i, j \in CallIdx :
        (calls[i].op = "blockdev" /\ calls[j].op = "blockdev" /\ i # j) =>
           calls[i].arg # calls[j].arg

EndsDoneOrFailed ==
  (pc = "exit" /\ cli.status # "version") => outcome \in {"done", "failed"}

====
